---------------------------- MODULE Spec2Model ----------------------------
(***************************************************************************)
(* Model of gerador_mega_sena_virada.py: the statistics of a draw history  *)
(* (frequency, staleness, odd ratio), the proportional selector            *)
(* gerar_combinacao_proporcional, the three validity checks and the retry  *)
(* loop of gerar_aposta, driven by main()'s prompts.                       *)
(*                                                                         *)
(* Randomness (random.sample, random.choice, random.shuffle) is a          *)
(* nondeterministic choice.  The order in which sort_values ranks equal    *)
(* values is a nondeterministic choice as well: pandas sorts with an       *)
(* unstable quicksort.                                                     *)
(*                                                                         *)
(* The number range and the pool size are scaled down: the source draws    *)
(* from 1..60 with pools of 30, the model from NUM_MIN..NUM_MAX with pools *)
(* of TopN, and requests at most MaxQtd numbers, keeping the source's      *)
(* relations MaxQtd <= NUM_MAX and ceil(0.8 * MaxQtd) <= TopN <= NUM_MAX.  *)
(***************************************************************************)
EXTENDS Integers, Sequences, FiniteSets, TLC

\* ------------------------------------------------------------------ bounds
\* NUM_MAX is 60 in the source (line 12), TopN is 30 (lines 244-245).
NUM_MAX == 12
TopN == 6
\* Largest count typed at the prompt that the model lets through (15 in the source).
MaxQtd == 7
\* Histories fed to the statistics functions when they are called directly.
MaxSorteios == 2
MaxConcurso == 3

\* ------------------------------------------------------- program constants
NUM_MIN == 1
QTD_MIN == 6
QTD_MAX == 15
BOLAS == 6
MAX_CONSECUTIVOS == 3

Numeros == NUM_MIN..NUM_MAX

Focos == {"frequentes", "atrasados", "equilibrado"}

\* ------------------------------------------------------------------ inputs
\* Draws (the BOLA1..BOLA6 of a row), as sets of six distinct numbers.
SorteioA == {1, 2, 3, 5, 6, 8}
SorteioB == {5, 6, 8, 9, 10, 11}
SorteioC == {2, 4, 6, 8, 10, 12}
SorteioD == {1, 2, 4, 6, 8, 10}

Sorteios == {SorteioA, SorteioB, SorteioC, SorteioD}

Linha(c, b) == [concurso |-> c, bolas |-> b]

\* Histories main() runs on: rows sorted by CONCURSO (carregar_dados), the
\* contest numbers with gaps as filtrar_mega_da_virada leaves them.
\* A history with one odd number in 12: an odd ratio of 1/12.  The window
\* [0.8/12, 1.2/12] then holds k / qtd for no odd count k when qtd is 6..9.
HistoricoUmDoze == << Linha(1, SorteioC), Linha(2, SorteioD) >>

Historicos ==
    { << Linha(1, SorteioA) >>,
      << Linha(3, SorteioA), Linha(7, SorteioB) >>,
      << Linha(1, SorteioC) >>,
      HistoricoUmDoze }

\* Histories for direct calls of the statistics functions: every sequence of
\* up to MaxSorteios rows with strictly increasing contest numbers.
HistoricosTeste ==
    UNION { { h \in [1..n -> [concurso : 1..MaxConcurso, bolas : Sorteios]] :
                \A i \in 1..(n - 1) : h[i].concurso < h[i + 1].concurso }
            : n \in 1..MaxSorteios }

\* What the user may type at the count prompt: an integer or other text.
EntradasQtd ==
    { [inteiro |-> TRUE, valor |-> v] :
        v \in ((QTD_MIN - 1)..MaxQtd) \cup {QTD_MAX + 1} }
    \cup { [inteiro |-> FALSE, valor |-> 0] }

\* What the user may type at the focus prompt.
EntradasFoco == {"1", "2", "3", "9"}

\* Combinations handed to the checks when they are called directly.
Candidatas == { c \in SUBSET Numeros : Cardinality(c) \in 1..MaxQtd }

VARIABLES
    pc,                 \* position in main() / gerar_aposta, or the function called
    df,                 \* the draw history (df_filtrado)
    entrada_qtd,        \* last text typed at the count prompt
    qtd_numeros,
    foco_opcao,         \* text typed at the focus prompt
    foco_aposta,
    freq_numeros,
    atraso_numeros,
    prop_impares_hist,  \* the odd ratio, as [num, den]
    top_freq,
    top_atra,
    escolhidos_freq,    \* locals of the last gerar_combinacao_proporcional call
    escolhidos_atra,
    combinacao,
    motivo,             \* which check made the loop continue
    ret                 \* result of a direct function call

vars == << pc, df, entrada_qtd, qtd_numeros, foco_opcao, foco_aposta,
           freq_numeros, atraso_numeros, prop_impares_hist, top_freq, top_atra,
           escolhidos_freq, escolhidos_atra, combinacao, motivo, ret >>

\* ----------------------------------------------------------------- helpers
Max(S) == CHOOSE x \in S : \A y \in S : x >= y

\* math.ceil(num / den) for num >= 0, den > 0.  The source takes math.ceil of
\* the binary64 product qtd_numeros * 0.8 (or * 0.5); for 6..15 that product is
\* an exact integer when 5 divides qtd_numeros and is far from one otherwise,
\* so the ceiling is that of the exact quotient.
CeilPiso(num, den) == num \div den

Ceil(num, den) == (num + den - 1) \div den

\* list.sort() on a list of distinct numbers: the element at position i is the
\* one with i - 1 smaller elements.
Ordena(S) ==
    [i \in 1..Cardinality(S) |->
        CHOOSE x \in S : Cardinality({ y \in S : y < x }) = i - 1]

Conjunto(s) == { s[i] : i \in DOMAIN s }

\* ------------------------------------------------------------- statistics
CalcularFrequenciaNumeros(h) ==
    [n \in Numeros |-> Cardinality({ i \in DOMAIN h : n \in h[i].bolas })]

UltimoConcurso(h) == Max({ h[i].concurso : i \in DOMAIN h })

\* The loop of lines 81-85: row by row, every number of the row takes the
\* row's contest number.
RECURSIVE VarrePrimeiro(_, _, _)
VarrePrimeiro(h, i, ult) ==
    IF i > Len(h) THEN ult
    ELSE VarrePrimeiro(h, i + 1,
            [n \in Numeros |->
                IF n \in h[i].bolas /\ ult[n] = -1 THEN h[i].concurso ELSE ult[n]])

RECURSIVE VarreSorteios(_, _, _)
VarreSorteios(h, i, ult) ==
    IF i > Len(h) THEN ult
    ELSE VarreSorteios(h, i + 1,
            [n \in Numeros |-> IF n \in h[i].bolas THEN h[i].concurso ELSE ult[n]])

CalcularAtrasoNumeros(h) ==
    LET ultimo_concurso == UltimoConcurso(h)
        ultimo_concurso_num == VarreSorteios(h, 1, [n \in Numeros |-> -1])
    IN  [n \in Numeros |->
            IF ultimo_concurso_num[n] = -1
            THEN ultimo_concurso
            ELSE ultimo_concurso - ultimo_concurso_num[n]]

\* total_impares / total_numeros, kept as a fraction; 0 when there are no rows.
ProporcaoImparesPares(h) ==
    LET total_numeros == Len(h) * BOLAS
        total_impares == Cardinality({ <<i, x>> \in (DOMAIN h) \X Numeros :
                                          x \in h[i].bolas /\ x % 2 # 0 })
    IN  IF total_numeros = 0
        THEN [num |-> 0, den |-> 1]
        ELSE [num |-> total_impares, den |-> total_numeros]

\* -------------------------------------------------------------- validators
JaSaiuNunca(combinacao_, h) == FALSE

JaSaiuNoHistorico(combinacao_, h) ==
    LET c_set == Conjunto(combinacao_)
    IN  \E i \in DOMAIN h : c_set = h[i].bolas

\* The loop of lines 135-143 over the sorted list, from index i with the
\* running count consecutivos.
RECURSIVE ContaConsecutivos(_, _, _, _)
ContaConsecutivos(c_ord, i, consecutivos, limite) ==
    IF i > Len(c_ord) THEN FALSE
    ELSE IF c_ord[i] = c_ord[i - 1] + 1
         THEN IF consecutivos + 1 > limite THEN TRUE
              ELSE ContaConsecutivos(c_ord, i + 1, consecutivos + 1, limite)
         ELSE ContaConsecutivos(c_ord, i + 1, 1, limite)

TemMaisDe4Consecutivos(combinacao_) ==
    ContaConsecutivos(Ordena(Conjunto(combinacao_)), 2, 1, MAX_CONSECUTIVOS + 1)

TemMaisDe3Consecutivos(combinacao_) ==
    ContaConsecutivos(Ordena(Conjunto(combinacao_)), 2, 1, MAX_CONSECUTIVOS)

\* Line 255: prop_impares * 0.8 <= impares / qtd_numeros <= prop_impares * 1.2,
\* with prop = p.num / p.den.  The source compares binary64 values.  Away from
\* the two ends of the window the exact comparison decides (the gap is at least
\* 1 / (5 * qtd * den), far above rounding).  Where impares / qtd equals an end
\* exactly, the rounded product may land on either side (5/6 * 0.8 > 4/6 in
\* binary64, but 0.5 * 0.8 = 4/10), so both outcomes are possible there; with
\* prop = 0 both products are exactly 0.
PassaSemTeto(impares, qtd, p) ==
    { 4 * p.num * qtd <= 5 * impares * p.den }

PassaImpares(impares, qtd, p) ==
    LET baixo == 4 * p.num * qtd
        valor == 5 * impares * p.den
        cima  == 6 * p.num * qtd
    IN  IF valor < baixo \/ valor > cima THEN {FALSE}
        ELSE IF p.num # 0 /\ (valor = baixo \/ valor = cima) THEN {TRUE, FALSE}
        ELSE {TRUE}

\* Lines 252-267: the checks on the sorted list, in the order of the source; the
\* check that makes the loop continue, "" when the list is returned.
Verifica(combinacao_, h, qtd, prop_impares) ==
    { IF ~passa THEN "impares"
      ELSE IF JaSaiuNoHistorico(combinacao_, h) THEN "historico"
      ELSE IF TemMaisDe3Consecutivos(combinacao_) THEN "consecutivos"
      ELSE ""
      : passa \in PassaImpares(
                    Cardinality({ i \in DOMAIN combinacao_ : combinacao_[i] % 2 # 0 }),
                    qtd, prop_impares) }

\* ---------------------------------------------------------------- selector
\* Lines 173-185: << n_freq, n_atra >>.
QuotasPiso(qtd, foco) ==
    IF foco = "frequentes"
    THEN << CeilPiso(4 * qtd, 5), qtd - CeilPiso(4 * qtd, 5) >>
    ELSE IF foco = "atrasados"
         THEN << qtd - CeilPiso(4 * qtd, 5), CeilPiso(4 * qtd, 5) >>
         ELSE << CeilPiso(qtd, 2), qtd - CeilPiso(qtd, 2) >>

Quotas(qtd, foco) ==
    IF foco = "frequentes"
    THEN LET n_freq == Ceil(4 * qtd, 5) IN << n_freq, qtd - n_freq >>
    ELSE IF foco = "atrasados"
         THEN LET n_atra == Ceil(4 * qtd, 5) IN << qtd - n_atra, n_atra >>
         ELSE LET n_freq == Ceil(qtd, 2) IN << n_freq, qtd - n_freq >>

\* Lines 188-197: the whole pool when it is smaller than k, else random.sample.
AmostrasCurtas(pool, k) ==
    IF Cardinality(pool) < k THEN {pool}
    ELSE { s \in SUBSET pool : Cardinality(s) = IF k > 0 THEN k - 1 ELSE 0 }

Amostras(pool, k) ==
    IF Cardinality(pool) < k THEN {pool}
    ELSE { s \in SUBSET pool : Cardinality(s) = k }

\* Lines 204-208: add random numbers of the range not yet chosen until the set
\* has qtd members or none is left.
SemPreencher(comb_set, qtd) == {comb_set}

RECURSIVE Preenche(_, _)
Preenche(comb_set, qtd) ==
    IF Cardinality(comb_set) >= qtd THEN {comb_set}
    ELSE LET resto == Numeros \ comb_set
         IN  IF resto = {} THEN {comb_set}
             ELSE UNION { Preenche(comb_set \cup {x}, qtd) : x \in resto }

\* Lines 211-214: random.sample down to qtd when the set is larger.
Corte(comb_set, qtd) ==
    IF Cardinality(comb_set) > qtd
    THEN { s \in SUBSET comb_set : Cardinality(s) = qtd }
    ELSE {comb_set}

\* Lines 199-214 for the two samples ef and ea: the union without duplicates,
\* filled up, cut down.  The returned list is shuffled (line 216) and its caller
\* sorts it (line 250), so it is kept as a set.
Combinacoes(qtd, ef, ea) ==
    UNION { Corte(s, qtd) : s \in Preenche(ef \cup ea, qtd) }

\* Lines 244-245: the first TopN labels of the series sorted by descending value.
\* Equal values may come in any order.
Top(serie) ==
    { t \in SUBSET Numeros :
        /\ Cardinality(t) = TopN
        /\ \A x \in t, y \in Numeros \ t : serie[x] >= serie[y] }

\* ------------------------------------------------------------------- state
Nada == << >>

\* Nothing typed yet at the count prompt.
SemEntrada == [inteiro |-> FALSE, valor |-> -1]

Init ==
    /\ \/ pc = "inicio" /\ df \in Historicos
       \/ pc = "teste" /\ df = Nada
    /\ entrada_qtd = SemEntrada
    /\ qtd_numeros = 0
    /\ foco_opcao = ""
    /\ foco_aposta = ""
    /\ freq_numeros = Nada
    /\ atraso_numeros = Nada
    /\ prop_impares_hist = Nada
    /\ top_freq = {}
    /\ top_atra = {}
    /\ escolhidos_freq = {}
    /\ escolhidos_atra = {}
    /\ combinacao = Nada
    /\ motivo = ""
    /\ ret = Nada

\* main(), lines 346-355: ask until an integer in 6..15 is typed.
PerguntaQtd ==
    /\ pc = "inicio"
    /\ \E e \in EntradasQtd :
        /\ entrada_qtd' = e
        /\ IF e.inteiro /\ QTD_MIN <= e.valor /\ e.valor <= QTD_MAX
           THEN qtd_numeros' = e.valor /\ pc' = "analise"
           ELSE UNCHANGED << qtd_numeros, pc >>
    /\ UNCHANGED << df, foco_opcao, foco_aposta, freq_numeros, atraso_numeros,
                    prop_impares_hist, top_freq, top_atra, escolhidos_freq,
                    escolhidos_atra, combinacao, motivo, ret >>

\* main(), lines 360-362.
Analise ==
    /\ pc = "analise"
    /\ freq_numeros' = CalcularFrequenciaNumeros(df)
    /\ atraso_numeros' = CalcularAtrasoNumeros(df)
    /\ prop_impares_hist' = ProporcaoImparesPares(df)
    /\ pc' = "foco"
    /\ UNCHANGED << df, entrada_qtd, qtd_numeros, foco_opcao, foco_aposta, top_freq,
                    top_atra, escolhidos_freq, escolhidos_atra, combinacao, motivo, ret >>

\* main(), lines 373-379: anything but "1" and "2" is the balanced focus.
PerguntaFoco ==
    /\ pc = "foco"
    /\ \E o \in EntradasFoco :
        /\ foco_opcao' = o
        /\ foco_aposta' = IF o = "1" THEN "frequentes"
                          ELSE IF o = "2" THEN "atrasados"
                          ELSE "equilibrado"
    /\ pc' = "gerar"
    /\ UNCHANGED << df, entrada_qtd, qtd_numeros, freq_numeros, atraso_numeros,
                    prop_impares_hist, top_freq, top_atra, escolhidos_freq,
                    escolhidos_atra, combinacao, motivo, ret >>

\* gerar_aposta, lines 244-245: the two pools, built once.
PreparaTop ==
    /\ pc = "gerar"
    /\ top_freq' \in Top(freq_numeros)
    /\ top_atra' \in Top(atraso_numeros)
    /\ pc' = "loop"
    /\ UNCHANGED << df, entrada_qtd, qtd_numeros, foco_opcao, foco_aposta,
                    freq_numeros, atraso_numeros, prop_impares_hist,
                    escolhidos_freq, escolhidos_atra, combinacao, motivo, ret >>

\* gerar_aposta, lines 247-267: one iteration of the while True loop, with the
\* call of gerar_combinacao_proporcional (lines 173-217) it makes.
Tentativa ==
    /\ pc = "loop"
    /\ escolhidos_freq' \in Amostras(top_freq, Quotas(qtd_numeros, foco_aposta)[1])
    /\ escolhidos_atra' \in Amostras(top_atra, Quotas(qtd_numeros, foco_aposta)[2])
    /\ combinacao' \in
            { Ordena(comb) :
                comb \in Combinacoes(qtd_numeros, escolhidos_freq', escolhidos_atra') }
    /\ motivo' \in Verifica(combinacao', df, qtd_numeros, prop_impares_hist)
    /\ pc' = IF motivo' = "" THEN "retornou" ELSE "rejeitada"
    /\ UNCHANGED << df, entrada_qtd, qtd_numeros, foco_opcao, foco_aposta,
                    freq_numeros, atraso_numeros, prop_impares_hist, top_freq,
                    top_atra, ret >>

\* The continue of lines 256, 260, 264: back to line 249.  The rejected list and
\* the samples are dead from here on (line 249 overwrites them), and are dropped.
Continua ==
    /\ pc = "rejeitada"
    /\ pc' = "loop"
    /\ escolhidos_freq' = {}
    /\ escolhidos_atra' = {}
    /\ combinacao' = Nada
    /\ motivo' = ""
    /\ UNCHANGED << df, entrada_qtd, qtd_numeros, foco_opcao, foco_aposta,
                    freq_numeros, atraso_numeros, prop_impares_hist, top_freq,
                    top_atra, ret >>

\* ---------------------------------------------- direct calls of the functions
ChamaConsecutivos ==
    /\ pc = "teste"
    /\ \E c \in Candidatas :
        /\ combinacao' = Ordena(c)
        /\ ret' = TemMaisDe3Consecutivos(Ordena(c))
    /\ pc' = "consecutivos"
    /\ UNCHANGED << df, entrada_qtd, qtd_numeros, foco_opcao, foco_aposta,
                    freq_numeros, atraso_numeros, prop_impares_hist, top_freq,
                    top_atra, escolhidos_freq, escolhidos_atra, motivo >>

ChamaJaSaiu ==
    /\ pc = "teste"
    /\ \E c \in Candidatas, h \in Historicos :
        /\ Cardinality(c) >= BOLAS
        /\ combinacao' = Ordena(c)
        /\ df' = h
        /\ ret' = JaSaiuNoHistorico(Ordena(c), h)
    /\ pc' = "ja_saiu"
    /\ UNCHANGED << entrada_qtd, qtd_numeros, foco_opcao, foco_aposta,
                    freq_numeros, atraso_numeros, prop_impares_hist, top_freq,
                    top_atra, escolhidos_freq, escolhidos_atra, motivo >>

ChamaAtraso ==
    /\ pc = "teste"
    /\ \E h \in HistoricosTeste :
        /\ df' = h
        /\ ret' = CalcularAtrasoNumeros(h)
    /\ pc' = "atraso"
    /\ UNCHANGED << entrada_qtd, qtd_numeros, foco_opcao, foco_aposta,
                    freq_numeros, atraso_numeros, prop_impares_hist, top_freq,
                    top_atra, escolhidos_freq, escolhidos_atra, combinacao, motivo >>

ChamaQuotas ==
    /\ pc = "teste"
    /\ \E n \in QTD_MIN..QTD_MAX, f \in Focos :
        /\ qtd_numeros' = n
        /\ foco_aposta' = f
        /\ ret' = Quotas(n, f)
    /\ pc' = "quotas"
    /\ UNCHANGED << df, entrada_qtd, foco_opcao, freq_numeros, atraso_numeros,
                    prop_impares_hist, top_freq, top_atra, escolhidos_freq,
                    escolhidos_atra, combinacao, motivo >>

\* main() and the gerar_aposta call it makes.
NextPrincipal ==
    \/ PerguntaQtd
    \/ Analise
    \/ PerguntaFoco
    \/ PreparaTop
    \/ Tentativa
    \/ Continua

Next ==
    \/ NextPrincipal
    \/ ChamaConsecutivos
    \/ ChamaJaSaiu
    \/ ChamaAtraso
    \/ ChamaQuotas

Spec == Init /\ [][Next]_vars

\* main() run on the history with odd ratio 1/12.  The loop of gerar_aposta
\* goes on as long as it can: nothing suspends it.
InitUmDoze == Init /\ pc = "inicio" /\ df = HistoricoUmDoze

FairSpec ==
    /\ InitUmDoze
    /\ [][NextPrincipal]_vars
    /\ WF_vars(Tentativa)
    /\ WF_vars(Continua)

\* ------------------------------------------------------------------ claims
Impares(c) == Cardinality({ i \in DOMAIN c : c[i] % 2 # 0 })

\* S holds n consecutive integers.
TemSequencia(S, n) == \E x \in S : \A d \in 0..(n - 1) : (x + d) \in S

\* k is the ceiling of num / den.
EhTeto(k, num, den) == k * den >= num /\ (k - 1) * den < num

AtrasoEsperado(h, n) ==
    LET maior == Max({ h[i].concurso : i \in DOMAIN h })
        com == { i \in DOMAIN h : n \in h[i].bolas }
    IN  IF com = {} THEN maior
        ELSE maior - Max({ h[i].concurso : i \in com })

AtrasoCorreto(h, a) ==
    \A n \in Numeros :
        /\ a[n] = AtrasoEsperado(h, n)
        /\ a[n] >= 0
        /\ (n \in h[Len(h)].bolas => a[n] = 0)

\* C1: once gerar_aposta has entered its loop, it ends: it returns a combination
\* or reports that the attempts are exhausted.
C1_GeracaoTermina == (pc = "loop") ~> (pc \in {"retornou", "esgotada"})

\* C2: a returned combination has exactly qtd_numeros elements, all in the number
\* range, in strictly ascending order (hence pairwise distinct).
C2_CombinacaoBemFormada ==
    pc = "retornou" =>
        /\ Len(combinacao) = qtd_numeros
        /\ \A i \in DOMAIN combinacao : combinacao[i] \in NUM_MIN..NUM_MAX
        /\ \A i, j \in DOMAIN combinacao : i < j => combinacao[i] < combinacao[j]

C2_Testemunha ==
    /\ pc = "retornou"
    /\ qtd_numeros = 7
    /\ escolhidos_freq \cap escolhidos_atra # {}

C4_SemQuatroConsecutivos ==
    /\ pc = "retornou" => ~TemSequencia(Conjunto(combinacao), 4)
    /\ motivo = "consecutivos" => TemSequencia(Conjunto(combinacao), 4)
    /\ pc = "consecutivos" => (ret <=> TemSequencia(Conjunto(combinacao), 4))

C4_Testemunha ==
    /\ pc = "retornou"
    /\ TemSequencia(Conjunto(combinacao), 3)

\* C5: a returned combination of six numbers equals no draw of the history, and
\* ja_saiu_no_historico is false for every combination of more than six numbers.
C5_NuncaRepeteHistorico ==
    /\ (pc = "retornou" /\ qtd_numeros = BOLAS) =>
            \A i \in DOMAIN df : Conjunto(combinacao) # df[i].bolas
    /\ (pc = "ja_saiu" /\ Len(combinacao) > BOLAS) => ret = FALSE
    /\ (pc = "ja_saiu" /\ Len(combinacao) = BOLAS) =>
            (ret <=> \E i \in DOMAIN df : Conjunto(combinacao) = df[i].bolas)
    /\ motivo = "historico" => qtd_numeros = BOLAS

C5_Testemunha ==
    /\ pc = "rejeitada"
    /\ motivo = "historico"
    /\ qtd_numeros = BOLAS

\* C6: a request with a count outside 6..15 or an unrecognized focus never
\* reaches the generation loop.
PedidoInvalido ==
    \/ /\ entrada_qtd # SemEntrada
       /\ ~(entrada_qtd.inteiro /\ QTD_MIN <= entrada_qtd.valor
                                /\ entrada_qtd.valor <= QTD_MAX)
    \/ foco_opcao \notin {"", "1", "2", "3"}

C6_PedidoInvalidoRejeitado ==
    PedidoInvalido => pc \notin {"loop", "rejeitada", "retornou"}

\* C7: the quotas are the ceiling of 0.8 N (0.5 N for the balanced focus) for the
\* favoured pool and the rest of N for the other; both are non-negative and they
\* add up to N.
C7_Quotas ==
    pc = "quotas" =>
        LET n == qtd_numeros
            n_freq == ret[1]
            n_atra == ret[2]
        IN  /\ foco_aposta = "frequentes" => EhTeto(n_freq, 4 * n, 5) /\ n_atra = n - n_freq
            /\ foco_aposta = "atrasados" => EhTeto(n_atra, 4 * n, 5) /\ n_freq = n - n_atra
            /\ foco_aposta = "equilibrado" => EhTeto(n_freq, n, 2) /\ n_atra = n - n_freq
            /\ n_freq >= 0
            /\ n_atra >= 0
            /\ n_freq + n_atra = n
            /\ (n = 11 /\ foco_aposta = "frequentes" => ret = << 9, 2 >>)
            /\ (n = 10 /\ foco_aposta = "equilibrado" => ret = << 5, 5 >>)

C7_Testemunha ==
    /\ pc = "quotas"
    /\ qtd_numeros = 11
    /\ foco_aposta = "frequentes"
    /\ ret = << 9, 2 >>

\* C8: the staleness of a number is the largest contest number minus the contest
\* number of the latest draw holding it, the largest contest number itself when
\* no draw holds it; it is never negative and is 0 for the numbers of the last draw.
C8_Atraso ==
    /\ pc = "atraso" => AtrasoCorreto(df, ret)
    /\ pc \in {"foco", "gerar", "loop", "rejeitada", "retornou"} =>
            AtrasoCorreto(df, atraso_numeros)

C8_Testemunha ==
    /\ pc = "atraso"
    /\ Len(df) = 2
    /\ df[2].concurso > df[1].concurso + 1
    /\ \E n \in Numeros : n \in df[1].bolas /\ n \in df[2].bolas
    /\ \E n \in Numeros : n \in df[1].bolas /\ n \notin df[2].bolas /\ ret[n] > 0
    /\ \E n \in Numeros : n \notin df[1].bolas /\ n \notin df[2].bolas

\* C10: every list of the selector holds at least n_freq numbers of top_freq and
\* n_atra numbers of top_atra; the two samples together never exceed N, every
\* sampled number is in the list, and a number from outside the samples is added
\* only when the samples share a number.
C10_ProporcaoRespeitada ==
    pc \in {"rejeitada", "retornou"} =>
        LET q == Quotas(qtd_numeros, foco_aposta)
            S == Conjunto(combinacao)
            uniao == escolhidos_freq \cup escolhidos_atra
        IN  /\ Cardinality(top_freq) = TopN /\ Cardinality(top_atra) = TopN
            /\ Cardinality(S \cap top_freq) >= q[1]
            /\ Cardinality(S \cap top_atra) >= q[2]
            /\ Cardinality(uniao) <= qtd_numeros
            /\ uniao \subseteq S
            /\ (S # uniao => escolhidos_freq \cap escolhidos_atra # {})

C10_Testemunha ==
    /\ pc \in {"rejeitada", "retornou"}
    /\ foco_aposta = "atrasados"
    /\ Conjunto(combinacao) # escolhidos_freq \cup escolhidos_atra

=============================================================================
